---- MODULE Spec2Model ----
(***************************************************************************)
(* Model of proekt.py: the currency converter with its rate cache          *)
(* (CurrencyConverter), the unit converter (UnitConverter), the two        *)
(* background loaders of ConverterGUI that call fetch_rates, and the       *)
(* handlers of ConverterGUI that convert and keep the history.             *)
(*                                                                         *)
(* Numbers.  Python floats are binary floating point numbers rounded to    *)
(* nearest-even after every operation.  A float is modelled as a pair      *)
(* <<m, e>> standing for m * 2^e, with m odd (or <<0, 0>>), and every      *)
(* arithmetic operation rounds its exact result to Precision significant   *)
(* bits, ties to even.  Precision is 53 in CPython; the model keeps the    *)
(* rounding discipline at a width TLC's integers can carry.                *)
(*                                                                         *)
(* Time.  datetime values are modelled as whole hours.                     *)
(*                                                                         *)
(* Strings.  Unit codes and category names of the source are Cyrillic;     *)
(* they are written here in Latin transliteration.                         *)
(***************************************************************************)
EXTENDS Integers, Sequences, FiniteSets, TLC

\* ------------------------------------------------------------------------
\* Bounds of the model

\* significant bits of a float
Precision == 6

\* last clock reading (hours)
MaxTime == 49

\* ------------------------------------------------------------------------
\* Program constants

BASE_CURRENCY == "RUB"

CACHE_DURATION_HOURS == 24

\* ------------------------------------------------------------------------
\* Floating point arithmetic: <<m, e>> is m * 2^e

RECURSIVE Pow2(_)
Pow2(k) == IF k <= 0 THEN 1 ELSE 2 * Pow2(k - 1)

RECURSIVE Norm(_, _)
Norm(m, e) ==
    IF m = 0 THEN <<0, 0>>
    ELSE IF m % 2 = 0 THEN Norm(m \div 2, e + 1)
    ELSE <<m, e>>

\* a significand of Precision bits lies in MinSignificand..MaxSignificand - 1
MaxSignificand == Pow2(Precision)

MinSignificand == Pow2(Precision - 1)

\* the float nearest to (n / d) * 2^e, for n > 0 and d > 0 (ties to even)
RECURSIVE RoundPos(_, _, _)
RoundPos(n, d, e) ==
    IF n >= d * MaxSignificand THEN RoundPos(n, 2 * d, e + 1)
    ELSE IF n < d * MinSignificand THEN RoundPos(2 * n, d, e - 1)
    ELSE LET m == n \div d
             r == n % d
             up == (2 * r > d) \/ (2 * r = d /\ m % 2 = 1)
         IN  Norm(IF up THEN m + 1 ELSE m, e)

FNeg(a) == <<0 - a[1], a[2]>>

\* the float nearest to (n / d) * 2^e, for d > 0
Round(n, d, e) ==
    IF n = 0 THEN <<0, 0>>
    ELSE IF n > 0 THEN RoundPos(n, d, e)
    ELSE FNeg(RoundPos(0 - n, d, e))

Zero == <<0, 0>>

FMul(a, b) == Round(a[1] * b[1], 1, a[2] + b[2])

\* a / b for b # 0 (Python raises ZeroDivisionError for b = 0)
FDiv(a, b) ==
    IF b[1] > 0 THEN Round(a[1], b[1], a[2] - b[2])
    ELSE Round(0 - a[1], 0 - b[1], a[2] - b[2])

FAdd(a, b) ==
    LET e == IF a[2] < b[2] THEN a[2] ELSE b[2]
    IN  Round(a[1] * Pow2(a[2] - e) + b[1] * Pow2(b[2] - e), 1, e)

FSub(a, b) == FAdd(a, FNeg(b))

\* the float of a small integer literal
Flt(k) == Round(k, 1, 0)

One == Flt(1)


\* ------------------------------------------------------------------------
\* Rate tables: a mapping from currency code to float

EmptyRates == [c \in {} |-> Zero]

\* two answers of the rate source for base RUB (0.011/0.010 and 0.0125/0.0105)
RatesA == ("RUB" :> One) @@ ("USD" :> <<45, -12>>) @@ ("EUR" :> <<41, -12>>)

RatesB == ("RUB" :> One) @@ ("USD" :> <<51, -12>>) @@ ("EUR" :> <<43, -12>>)

\* a table expressed relative to USD (90 RUB and 0.9 EUR for one USD)
RatesUSD == ("USD" :> One) @@ ("RUB" :> <<45, 1>>) @@ ("EUR" :> <<29, -5>>)

\* ConverterGUI.setup_demo_mode: the fixed table, each literal rounded
demo_rates ==
    ("USD" :> <<45, -12>>) @@
    ("EUR" :> <<41, -12>>) @@
    ("GBP" :> <<35, -12>>) @@
    ("JPY" :> <<53, -5>>) @@
    ("CNY" :> <<5, -6>>) @@
    ("RUB" :> <<1, 0>>) @@
    ("CAD" :> <<61, -12>>) @@
    ("AUD" :> <<33, -11>>) @@
    ("CHF" :> <<39, -12>>) @@
    ("INR" :> <<59, -6>>) @@
    ("BRL" :> <<7, -7>>) @@
    ("MXN" :> <<23, -7>>) @@
    ("UAH" :> <<27, -6>>) @@
    ("KZT" :> <<41, -3>>) @@
    ("BYN" :> <<9, -8>>)

\* Optional[datetime]: <<>> is None, <<t>> is the datetime t
None == <<>>

Some(t) == <<t>>

\* ------------------------------------------------------------------------
\* The cache file exchange_rates_cache.json

\* no file (os.path.exists is False)
CacheMissing == [kind |-> "missing", timestamp |-> 0, base |-> "", rates |-> EmptyRates]

\* a file json.load or datetime.fromisoformat rejects, or without 'timestamp'
CacheCorrupt == [kind |-> "corrupt", timestamp |-> 0, base |-> "", rates |-> EmptyRates]

\* a well-formed file
Snapshot(t, b, rs) == [kind |-> "snapshot", timestamp |-> t, base |-> b, rates |-> rs]

\* a JSON object with a timestamp and no 'rates' key
CacheNoRates(t) == [kind |-> "no_rates", timestamp |-> t, base |-> "", rates |-> EmptyRates]

\* mutant: a snapshot of exactly 24 hours still counts as fresh
load_from_cache_inclusive(rs, lu, file, t) ==
    IF file.kind \in {"missing", "corrupt"}
    THEN [ret |-> FALSE, rates |-> rs, last_update |-> lu]
    ELSE IF t - file.timestamp <= CACHE_DURATION_HOURS /\ file.kind = "snapshot"
    THEN [ret |-> TRUE, rates |-> file.rates, last_update |-> Some(file.timestamp)]
    ELSE [ret |-> FALSE, rates |-> rs, last_update |-> lu]

\* CurrencyConverter._load_from_cache: the converter's state after the call
\* and the value returned
load_from_cache(rs, lu, file, t) ==
    IF file.kind = "missing" THEN [ret |-> FALSE, rates |-> rs, last_update |-> lu]
    ELSE IF file.kind = "corrupt" THEN [ret |-> FALSE, rates |-> rs, last_update |-> lu]
    ELSE IF t - file.timestamp < CACHE_DURATION_HOURS
         THEN IF file.kind = "no_rates"
              THEN [ret |-> FALSE, rates |-> rs, last_update |-> lu]
              ELSE [ret |-> TRUE, rates |-> file.rates,
                    last_update |-> Some(file.timestamp)]
    ELSE [ret |-> FALSE, rates |-> rs, last_update |-> lu]

\* what the write of the cache file can come to
WriteOutcomes == {"written", "open_failed", "dump_failed"}

\* mutant: the snapshot is written to some other file
save_to_cache_elsewhere(rs, file, t, write) == file

\* CurrencyConverter._save_to_cache: the cache file after the call; every
\* exception is swallowed
save_to_cache(rs, file, t, write) ==
    IF write = "written" THEN Snapshot(t, BASE_CURRENCY, rs)
    ELSE IF write = "open_failed" THEN file
    ELSE CacheCorrupt

\* ------------------------------------------------------------------------
\* The rate source (requests.get on the API url)

ResponseKinds ==
    {"transport_error", "http_error", "not_json", "no_result",
     "error_result", "success_no_rates", "success"}

Response(k, rs) == [kind |-> k, conversion_rates |-> rs]

\* mutant: the rate source first, the cache only when it fails
fetch_rates_cache_as_fallback(rs, lu, file, t, response, write) ==
    IF response.kind = "success"
    THEN [outcome |-> "True", contacted |-> TRUE,
          rates |-> response.conversion_rates, last_update |-> Some(t),
          cache |-> save_to_cache(response.conversion_rates, file, t, write)]
    ELSE LET cached == load_from_cache(rs, lu, file, t)
         IN  [outcome |-> IF cached.ret THEN "True" ELSE "False", contacted |-> TRUE,
              rates |-> cached.rates, last_update |-> cached.last_update,
              cache |-> file]

\* mutant: a cache file that cannot be written makes the call fail
fetch_rates_write_fatal(rs, lu, file, t, response, write) ==
    LET cached == load_from_cache(rs, lu, file, t)
        unchanged(o) == [outcome |-> o, contacted |-> TRUE, rates |-> cached.rates,
                         last_update |-> cached.last_update, cache |-> file]
    IN  IF cached.ret
        THEN [outcome |-> "True", contacted |-> FALSE, rates |-> cached.rates,
              last_update |-> cached.last_update, cache |-> file]
        ELSE IF response.kind \in {"no_result", "success_no_rates"}
             THEN unchanged("KeyError")
        ELSE IF response.kind # "success" THEN unchanged("False")
        ELSE IF write # "written" THEN unchanged("False")
        ELSE [outcome |-> "True", contacted |-> TRUE,
              rates |-> response.conversion_rates, last_update |-> Some(t),
              cache |-> save_to_cache(response.conversion_rates, file, t, write)]

\* CurrencyConverter.fetch_rates: outcome is "True" or "False" (the value
\* returned) or the name of the exception that leaves the method
fetch_rates(rs, lu, file, t, response, write) ==
    LET cached == load_from_cache(rs, lu, file, t)
        unchanged(o) == [outcome |-> o, contacted |-> TRUE, rates |-> cached.rates,
                         last_update |-> cached.last_update, cache |-> file]
    IN  IF cached.ret
        THEN [outcome |-> "True", contacted |-> FALSE, rates |-> cached.rates,
              last_update |-> cached.last_update, cache |-> file]
        ELSE IF response.kind \in {"transport_error", "http_error"}
             THEN unchanged("False")
        ELSE IF response.kind = "not_json" THEN unchanged("False")
        ELSE IF response.kind = "no_result" THEN unchanged("KeyError")
        ELSE IF response.kind = "error_result" THEN unchanged("False")
        ELSE IF response.kind = "success_no_rates" THEN unchanged("KeyError")
        ELSE [outcome |-> "True", contacted |-> TRUE,
              rates |-> response.conversion_rates, last_update |-> Some(t),
              cache |-> save_to_cache(response.conversion_rates, file, t, write)]

\* ------------------------------------------------------------------------
\* CurrencyConverter.convert

\* mutant: the codes are used as entered
upper_omitted(s) == s

\* str.upper on the currency codes the model enters
upper(s) ==
    CASE s = "usd" -> "USD"
      [] s = "Eur" -> "EUR"
      [] s = "rub" -> "RUB"
      [] s = "xxx" -> "XXX"
      [] OTHER -> s

Raise(exc, msg) == [kind |-> "error", error |-> exc, message |-> msg]

\* mutant: the rate is left at its default
ConversionResult_without_rate(amount, from_unit, to_unit, result, timestamp, rate) ==
    [kind |-> "result", amount |-> amount, from_unit |-> from_unit,
     to_unit |-> to_unit, result |-> result, timestamp |-> timestamp, rate |-> None]

ConversionResult(amount, from_unit, to_unit, result, timestamp, rate) ==
    [kind |-> "result", amount |-> amount, from_unit |-> from_unit,
     to_unit |-> to_unit, result |-> result, timestamp |-> timestamp, rate |-> rate]

\* mutant: the rate of the first case applied upside down
convert_loaded_inverted(rs, f, g, amount, t) ==
    IF f = BASE_CURRENCY
    THEN ConversionResult(amount, f, g, FDiv(amount, rs[g]), t, Some(rs[g]))
    ELSE IF g = BASE_CURRENCY
    THEN ConversionResult(amount, f, g, FMul(amount, FDiv(One, rs[f])), t,
                          Some(FDiv(One, rs[f])))
    ELSE IF amount = Zero
    THEN Raise("ZeroDivisionError", "division by zero")
    ELSE ConversionResult(amount, f, g, FMul(FDiv(amount, rs[f]), rs[g]), t,
                          Some(FDiv(FMul(FDiv(amount, rs[f]), rs[g]), amount)))

\* CurrencyConverter.convert, from "if from_currency == self.base_currency":
\* f and g are the upper-cased codes, both in rs
convert_loaded(rs, f, g, amount, t) ==
    IF f = BASE_CURRENCY
    THEN ConversionResult(amount, f, g, FMul(amount, rs[g]), t, Some(rs[g]))
    ELSE IF g = BASE_CURRENCY
    THEN IF rs[f] = Zero
         THEN Raise("ZeroDivisionError", "division by zero")
         ELSE LET rate == FDiv(One, rs[f])
              IN  ConversionResult(amount, f, g, FMul(amount, rate), t, Some(rate))
    ELSE IF rs[f] = Zero
         THEN Raise("ZeroDivisionError", "division by zero")
         ELSE LET amount_in_base == FDiv(amount, rs[f])
                  result == FMul(amount_in_base, rs[g])
              IN  IF amount = Zero
                  THEN Raise("ZeroDivisionError", "division by zero")
                  ELSE ConversionResult(amount, f, g, result, t,
                                        Some(FDiv(result, amount)))

\* mutant: the codes are looked up before the emptiness of rates is tested
convert_codes_first(rs, from_currency, to_currency, amount, t) ==
    LET f == upper(from_currency)
        g == upper(to_currency)
    IN  IF f \notin DOMAIN rs \/ g \notin DOMAIN rs
        THEN Raise("ValueError", "unknown_currency")
        ELSE IF DOMAIN rs = {}
        THEN Raise("ValueError", "rates_not_loaded")
        ELSE convert_loaded(rs, f, g, amount, t)

\* CurrencyConverter.convert, up to the lookup of the two codes
convert(rs, from_currency, to_currency, amount, t) ==
    IF DOMAIN rs = {}
    THEN Raise("ValueError", "rates_not_loaded")
    ELSE LET f == upper(from_currency)
             g == upper(to_currency)
         IN  IF f \notin DOMAIN rs \/ g \notin DOMAIN rs
             THEN Raise("ValueError", "unknown_currency")
             ELSE convert_loaded(rs, f, g, amount, t)

\* ------------------------------------------------------------------------
\* UnitConverter

\* UnitConverter.CONVERSION_FACTORS, in the order of the source; each factor
\* literal rounded.  Codes, in the order listed, stand for:
\*   Dlina (length): mm, cm, m, km, inch, foot, yard, mile, nautical mile
\*   Massa (mass): mg, g, kg, t, centner, ounce, pound, carat
\*   Temperatura: degC, degF, K
\*   Ploshchad (area), Skorost (speed), Obem (volume), Davlenie (pressure),
\*   Energiya (energy), Moshchnost (power), Vremya (time)
CONVERSION_FACTORS == <<
    [name |-> "Dlina", units |->
        ("mm" :> <<33, -15>>) @@
        ("sm" :> <<41, -12>>) @@
        ("m" :> <<1, 0>>) @@
        ("km" :> <<31, 5>>) @@
        ("dyuym" :> <<13, -9>>) @@
        ("fut" :> <<39, -7>>) @@
        ("yard" :> <<59, -6>>) @@
        ("milya" :> <<25, 6>>) @@
        ("morskaya milya" :> <<29, 6>>)],
    [name |-> "Massa", units |->
        ("mg" :> <<17, -24>>) @@
        ("g" :> <<33, -15>>) @@
        ("kg" :> <<1, 0>>) @@
        ("t" :> <<31, 5>>) @@
        ("tsentner" :> <<25, 2>>) @@
        ("untsiya" :> <<29, -10>>) @@
        ("funt" :> <<29, -6>>) @@
        ("karat" :> <<13, -16>>)],
    [name |-> "Temperatura", units |->
        ("degC" :> "celsius") @@
        ("degF" :> "fahrenheit") @@
        ("K" :> "kelvin")],
    [name |-> "Ploshchad", units |->
        ("mm2" :> <<17, -24>>) @@
        ("sm2" :> <<13, -17>>) @@
        ("m2" :> <<1, 0>>) @@
        ("km2" :> <<61, 14>>) @@
        ("ga" :> <<39, 8>>) @@
        ("sotka" :> <<25, 2>>) @@
        ("akr" :> <<63, 6>>) @@
        ("fut2" :> <<3, -5>>) @@
        ("dyuym2" :> <<21, -15>>)],
    [name |-> "Skorost", units |->
        ("m/s" :> <<1, 0>>) @@
        ("km/ch" :> <<9, -5>>) @@
        ("mil/ch" :> <<57, -7>>) @@
        ("uzly" :> <<33, -6>>) @@
        ("fut/s" :> <<39, -7>>)],
    [name |-> "Obem", units |->
        ("ml" :> <<33, -15>>) @@
        ("l" :> <<1, 0>>) @@
        ("m3" :> <<31, 5>>) @@
        ("sm3" :> <<33, -15>>) @@
        ("gallon US" :> <<61, -4>>) @@
        ("gallon UK" :> <<9, -1>>) @@
        ("pinta US" :> <<61, -7>>) @@
        ("pinta UK" :> <<9, -4>>) @@
        ("zhidkaya untsiya" :> <<61, -11>>) @@
        ("barrel neftyanoy" :> <<5, 5>>)],
    [name |-> "Davlenie", units |->
        ("Pa" :> <<1, 0>>) @@
        ("kPa" :> <<31, 5>>) @@
        ("MPa" :> <<61, 14>>) @@
        ("bar" :> <<49, 11>>) @@
        ("atm" :> <<49, 11>>) @@
        ("mm rt.st." :> <<33, 2>>) @@
        ("psi" :> <<27, 8>>)],
    [name |-> "Energiya", units |->
        ("Dzh" :> <<1, 0>>) @@
        ("kDzh" :> <<31, 5>>) @@
        ("MDzh" :> <<61, 14>>) @@
        ("kkal" :> <<33, 7>>) @@
        ("kal" :> <<33, -3>>) @@
        ("kVt*ch" :> <<55, 16>>) @@
        ("eV" :> <<47, -68>>)],
    [name |-> "Moshchnost", units |->
        ("Vt" :> <<1, 0>>) @@
        ("kVt" :> <<31, 5>>) @@
        ("MVt" :> <<61, 14>>) @@
        ("l.s." :> <<23, 5>>) @@
        ("l.s. (angl.)" :> <<47, 4>>)],
    [name |-> "Vremya", units |->
        ("ns" :> <<17, -34>>) @@
        ("mks" :> <<17, -24>>) @@
        ("ms" :> <<33, -15>>) @@
        ("s" :> <<1, 0>>) @@
        ("min" :> <<15, 2>>) @@
        ("ch" :> <<7, 9>>) @@
        ("den" :> <<21, 12>>) @@
        ("nedelya" :> <<37, 14>>) @@
        ("mesyats" :> <<5, 19>>) @@
        ("god" :> <<15, 21>>)]
>>

\* the literals 273.15, 32, 5 and 9 of _convert_temperature
T273_15 == <<17, 4>>

T32 == Flt(32)

T5 == Flt(5)

T9 == Flt(9)

\* UnitConverter.get_unit_type: the first category listing the unit, or None
get_unit_type(unit) ==
    LET hits == {i \in 1..Len(CONVERSION_FACTORS) :
                    unit \in DOMAIN CONVERSION_FACTORS[i].units}
    IN  IF hits = {} THEN None
        ELSE Some(CONVERSION_FACTORS[CHOOSE i \in hits : \A j \in hits : i <= j].name)

factors_of(unit_type) ==
    CONVERSION_FACTORS[CHOOSE i \in 1..Len(CONVERSION_FACTORS) :
                           CONVERSION_FACTORS[i].name = unit_type].units

\* mutant: the factors 9/5 and 5/9 change places
convert_temperature_swapped(value, from_unit, to_unit) ==
    LET celsius ==
            IF from_unit = "degC" THEN value
            ELSE IF from_unit = "degF"
                 THEN FDiv(FMul(FSub(value, T32), T9), T5)
                 ELSE FSub(value, T273_15)
    IN  [kind |-> "value",
         value |-> IF to_unit = "degC" THEN celsius
                   ELSE IF to_unit = "degF"
                        THEN FAdd(FDiv(FMul(celsius, T5), T9), T32)
                        ELSE FAdd(celsius, T273_15)]

\* UnitConverter._convert_temperature: through Celsius
convert_temperature(value, from_unit, to_unit) ==
    IF from_unit \notin {"degC", "degF", "K"}
    THEN Raise("ValueError", [text |-> "unknown_temperature_unit", unit |-> from_unit])
    ELSE IF to_unit \notin {"degC", "degF", "K"}
    THEN Raise("ValueError", [text |-> "unknown_temperature_unit", unit |-> to_unit])
    ELSE LET celsius ==
                 IF from_unit = "degC" THEN value
                 ELSE IF from_unit = "degF"
                      THEN FDiv(FMul(FSub(value, T32), T5), T9)
                      ELSE FSub(value, T273_15)
         IN  [kind |-> "value",
              value |-> IF to_unit = "degC" THEN celsius
                        ELSE IF to_unit = "degF"
                             THEN FAdd(FDiv(FMul(celsius, T9), T5), T32)
                             ELSE FAdd(celsius, T273_15)]

\* mutant: the unknown-unit error only when both codes are unknown
unit_convert_both_unknown(value, from_unit, to_unit, t) ==
    LET from_unit_type == get_unit_type(from_unit)
        to_unit_type == get_unit_type(to_unit)
        name(ty) == IF ty = None THEN "None" ELSE ty[1]
    IN  IF from_unit_type = None /\ to_unit_type = None
        THEN Raise("ValueError", [text |-> "unknown_unit", units |-> <<from_unit, to_unit>>])
        ELSE IF from_unit_type # to_unit_type
        THEN Raise("ValueError",
                   [text |-> "incompatible_units", units |-> <<from_unit, to_unit>>,
                    types |-> <<name(from_unit_type), name(to_unit_type)>>])
        ELSE IF from_unit_type[1] = "Temperatura"
        THEN LET r == convert_temperature(value, from_unit, to_unit)
             IN  IF r.kind = "error" THEN r
                 ELSE ConversionResult(value, from_unit, to_unit, r.value, t, None)
        ELSE LET factors == factors_of(from_unit_type[1])
                 value_in_base == FMul(value, factors[from_unit])
             IN  ConversionResult(value, from_unit, to_unit,
                                  FDiv(value_in_base, factors[to_unit]), t, None)

\* UnitConverter.convert
unit_convert(value, from_unit, to_unit, t) ==
    LET from_unit_type == get_unit_type(from_unit)
        to_unit_type == get_unit_type(to_unit)
    IN  IF from_unit_type = None \/ to_unit_type = None
        THEN Raise("ValueError", [text |-> "unknown_unit", units |-> <<from_unit, to_unit>>])
        ELSE IF from_unit_type # to_unit_type
        THEN Raise("ValueError",
                   [text |-> "incompatible_units", units |-> <<from_unit, to_unit>>,
                    types |-> <<from_unit_type[1], to_unit_type[1]>>])
        ELSE IF from_unit_type[1] = "Temperatura"
        THEN LET r == convert_temperature(value, from_unit, to_unit)
             IN  IF r.kind = "error" THEN r
                 ELSE ConversionResult(value, from_unit, to_unit, r.value, t, None)
        ELSE LET factors == factors_of(from_unit_type[1])
                 value_in_base == FMul(value, factors[from_unit])
             IN  ConversionResult(value, from_unit, to_unit,
                                  FDiv(value_in_base, factors[to_unit]), t, None)

\* ------------------------------------------------------------------------
\* Inputs

\* the clock is read around the 24 hour boundaries
Instants == {t \in 0..MaxTime : t % CACHE_DURATION_HOURS \in {0, 1, 23}}

StartTime == CACHE_DURATION_HOURS

\* what the rate source can answer
Responses ==
    {Response(k, EmptyRates) : k \in ResponseKinds \ {"success"}}
    \cup {Response("success", rs) : rs \in {RatesA, RatesB, EmptyRates}}

\* what the cache file can hold when the program starts
InitialCaches ==
    {CacheMissing, CacheCorrupt}
    \cup {CacheNoRates(t) : t \in {1}}
    \cup {Snapshot(t, "RUB", RatesA) : t \in {0, 1, 25}}
    \cup {Snapshot(1, "USD", RatesUSD), Snapshot(1, "RUB", EmptyRates)}

CurrencyInputs == {"RUB", "USD", "EUR", "usd", "Eur", "XXX"}

Amounts == {Zero, Flt(3), Flt(5)}

UnitInputs == {"m", "km", "degC", "degF", "K", "parsecs"}

Values == {Zero, Flt(3), Flt(32), Flt(100)}

\* ------------------------------------------------------------------------
\* State

VARIABLES
    rates,          \* CurrencyConverter.rates
    last_update,    \* CurrencyConverter.last_update
    cache,          \* the cache file
    now,            \* the clock
    started,        \* load_rates_in_background has run
    last_success,   \* when fetch_rates last returned True
    persisted,      \* timestamp of the snapshot the last successful
                    \* fetch_rates left in the cache file
    call,           \* the last call and what it came to
    pc,             \* where each background thread stands
    tmp,            \* the local values of each background thread
    runs,           \* how often each background thread was started
    rates_from,     \* the call that assigned rates
    update_from,    \* the call that assigned last_update
    installed,      \* the pairs <<rates, last_update>> the calls assigned
    history,        \* ConverterGUI.history
    reader          \* the convert call the main thread is in: where it
                    \* stands, its locals and the rates objects it has read

threads == <<pc, tmp, runs, rates_from, update_from, installed>>

calls == <<started, last_success, persisted, call>>

\* the state the handlers of the main thread keep
gui == <<history, reader>>

vars == <<rates, last_update, cache, now, calls, threads, gui>>

\* the threads of load_rates_in_background and of update_rates
Threads == {"loader", "updater"}

NoTmp == [rates |-> EmptyRates, time |-> 0]

Constructed == <<"__init__", 0, "init">>

\* no convert call made yet
NoReader ==
    [pc |-> "idle", from_currency |-> "", to_currency |-> "", amount |-> Zero,
     amount_in_base |-> Zero, seen |-> {}, time |-> 0, out |-> [kind |-> "none"]]

Init ==
    /\ rates = EmptyRates
    /\ last_update = None
    /\ cache \in InitialCaches
    /\ now = StartTime
    /\ started = FALSE
    /\ last_success = None
    /\ persisted = None
    /\ call = [op |-> "none"]
    /\ pc = [t \in Threads |-> "idle"]
    /\ tmp = [t \in Threads |-> NoTmp]
    /\ runs = [t \in Threads |-> 0]
    /\ rates_from = Constructed
    /\ update_from = Constructed
    /\ installed = {}
    /\ history = <<>>
    /\ reader = NoReader

\* the record of one fetch_rates call: the state before, what
\* _load_from_cache made of the cache file, the answer of the rate source,
\* how the write of the cache file went (when there was one), the outcome
\* and the converter's state when fetch_rates returned
FetchCall(caller, response, write, r) ==
    [op |-> "fetch_rates", caller |-> caller, time |-> now,
     pre_rates |-> rates, pre_last_update |-> last_update, pre_cache |-> cache,
     pre_last_success |-> last_success, pre_persisted |-> persisted,
     loaded |-> load_from_cache(rates, last_update, cache, now),
     response |-> response.kind, payload |-> response.conversion_rates,
     write |-> IF r.contacted /\ response.kind = "success" THEN write ELSE "no_write",
     outcome |-> r.outcome, contacted |-> r.contacted,
     rates |-> r.rates, last_update |-> r.last_update, cache |-> r.cache]

Bookkeeping(r, write) ==
    /\ last_success' = IF r.outcome = "True" THEN Some(now) ELSE last_success
    /\ persisted' = IF r.outcome # "True" THEN persisted
                    ELSE IF ~r.contacted THEN Some(cache.timestamp)
                    ELSE IF write = "written" THEN Some(now)
                    ELSE None

\* ConverterGUI.update_rates: the body of load() on its thread, run as one
\* step
UpdateRates ==
    \E response \in Responses, write \in WriteOutcomes :
        LET r == fetch_rates(rates, last_update, cache, now, response, write)
        IN  /\ rates' = r.rates
            /\ last_update' = r.last_update
            /\ cache' = r.cache
            /\ call' = FetchCall("update_rates", response, write, r)
            /\ Bookkeeping(r, write)
            /\ UNCHANGED <<now, started, threads, gui>>

\* ConverterGUI.load_rates_in_background: the body of load() on its thread,
\* run as one step; setup_demo_mode after a False from fetch_rates
LoadRatesInBackground ==
    /\ ~started
    /\ started' = TRUE
    /\ \E response \in Responses, write \in WriteOutcomes :
        LET r == fetch_rates(rates, last_update, cache, now, response, write)
        IN  /\ rates' = IF r.outcome = "False" THEN demo_rates ELSE r.rates
            /\ last_update' = IF r.outcome = "False" THEN Some(now) ELSE r.last_update
            /\ cache' = r.cache
            /\ call' = FetchCall("load_rates_in_background", response, write, r)
            /\ Bookkeeping(r, write)
            /\ UNCHANGED <<now, threads, gui>>

\* a call of CurrencyConverter.convert
Convert ==
    \E f \in CurrencyInputs, g \in CurrencyInputs, amount \in Amounts :
        /\ call' = [op |-> "convert", rates |-> rates, from_currency |-> f,
                    to_currency |-> g, amount |-> amount,
                    out |-> convert(rates, f, g, amount, now)]
        /\ UNCHANGED <<rates, last_update, cache, now, started, last_success, persisted, threads, gui>>

\* a call of UnitConverter.convert
UnitConvert ==
    \E value \in Values, from_unit \in UnitInputs, to_unit \in UnitInputs :
        /\ call' = [op |-> "unit_convert", value |-> value, from_unit |-> from_unit,
                    to_unit |-> to_unit,
                    out |-> unit_convert(value, from_unit, to_unit, now)]
        /\ UNCHANGED <<rates, last_update, cache, now, started, last_success, persisted, threads, gui>>

\* float() of the text of an entry field: the number, or None where float
\* raises ValueError
float_of(text) ==
    CASE text = "3" -> Some(Flt(3))
      [] text = "0" -> Some(Zero)
      [] text = "100" -> Some(Flt(100))
      [] OTHER -> None

\* mutant: what convert came to is appended whether it succeeded or not
convert_units_append_first(h, from_unit, to_unit, amount_text, t) ==
    LET amount == float_of(amount_text)
    IN  IF amount = None
        THEN [history |-> h, out |-> Raise("ValueError", "could_not_convert_string_to_float")]
        ELSE LET result == unit_convert(amount[1], from_unit, to_unit, t)
             IN  [history |-> Append(h, result), out |-> result]

\* ConverterGUI.convert_currency: the history after the handler and what
\* convert came to (a result, or the exception the handler reports)
convert_currency(rs, h, from_text, to_text, amount_text, t) ==
    LET from_curr == upper(from_text)
        to_curr == upper(to_text)
        amount == float_of(amount_text)
    IN  IF amount = None
        THEN [history |-> h, out |-> Raise("ValueError", "could_not_convert_string_to_float")]
        ELSE LET result == convert(rs, from_curr, to_curr, amount[1], t)
             IN  IF result.kind = "error"
                 THEN [history |-> h, out |-> result]
                 ELSE [history |-> Append(h, result), out |-> result]

\* ConverterGUI.convert_units
convert_units(h, from_unit, to_unit, amount_text, t) ==
    LET amount == float_of(amount_text)
    IN  IF amount = None
        THEN [history |-> h, out |-> Raise("ValueError", "could_not_convert_string_to_float")]
        ELSE LET result == unit_convert(amount[1], from_unit, to_unit, t)
             IN  IF result.kind = "error"
                 THEN [history |-> h, out |-> result]
                 ELSE [history |-> Append(h, result), out |-> result]

\* ConverterGUI.clear_history: answer is what askyesno returns
clear_history(h, answer) == IF answer THEN <<>> ELSE h

\* entries of history the model follows
MaxHistory == 2

\* what the user enters in the currency boxes, the unit boxes and the
\* amount fields
GuiCurrencies == {"usd", "XXX"}

GuiUnits == {"m", "degC"}

AmountTexts == {"3", "abc"}

\* a click on the convert button of the currency tab
ConvertCurrency ==
    \E from_text \in GuiCurrencies, to_text \in GuiCurrencies, amount_text \in AmountTexts :
        LET r == convert_currency(rates, history, from_text, to_text, amount_text, now)
        IN  /\ Len(r.history) <= MaxHistory
            /\ history' = r.history
            /\ call' = [op |-> "convert_currency", from_text |-> from_text,
                        to_text |-> to_text, amount_text |-> amount_text,
                        rates |-> rates, out |-> r.out]
            /\ UNCHANGED <<rates, last_update, cache, now, started, last_success, persisted, threads, reader>>

\* a click on the convert button of the units tab
ConvertUnits ==
    \E from_unit \in GuiUnits, to_unit \in GuiUnits, amount_text \in AmountTexts :
        LET r == convert_units(history, from_unit, to_unit, amount_text, now)
        IN  /\ Len(r.history) <= MaxHistory
            /\ history' = r.history
            /\ call' = [op |-> "convert_units", from_unit |-> from_unit,
                        to_unit |-> to_unit, amount_text |-> amount_text, out |-> r.out]
            /\ UNCHANGED <<rates, last_update, cache, now, started, last_success, persisted, threads, reader>>

\* a click on the clear button of the history tab
ClearHistory ==
    \E answer \in BOOLEAN :
        /\ history' = clear_history(history, answer)
        /\ call' = [op |-> "clear_history", answer |-> answer]
        /\ UNCHANGED <<rates, last_update, cache, now, started, last_success, persisted, threads, reader>>

\* time passes
Tick ==
    /\ \E t \in Instants : t > now /\ now' = t
    /\ UNCHANGED <<rates, last_update, cache, calls, threads, gui>>

\* the rate cache over time: the two loaders and the clock
Next == UpdateRates \/ LoadRatesInBackground \/ Tick

Spec == Init /\ [][Next]_vars

\* currency conversion on the rates the loaders leave
NextConvert == UpdateRates \/ LoadRatesInBackground \/ Convert

SpecConvert == Init /\ [][NextConvert]_vars

\* unit conversion
NextUnits == UnitConvert \/ Tick

SpecUnits == Init /\ [][NextUnits]_vars

\* the two converters side by side, on the rates the program starts with
NextResults == LoadRatesInBackground \/ Convert \/ UnitConvert

SpecResults == Init /\ [][NextResults]_vars

\* the buttons of the window, after the start-up load
NextGUI == LoadRatesInBackground \/ ConvertCurrency \/ ConvertUnits \/ ClearHistory

SpecGUI == Init /\ [][NextGUI]_vars

\* ------------------------------------------------------------------------
\* The background threads, statement by statement.  pc names the line of
\* proekt.py a thread executes next.

\* clicks on "update rates" the model follows
MaxRuns == 1

\* load_rates_in_background is called once, from ConverterGUI.__init__
Starts(t) == IF t = "loader" THEN 1 ELSE MaxRuns

FetchId(t) == <<t, runs[t], "fetch_rates">>

DemoId(t) == <<t, runs[t], "setup_demo_mode">>

Goto(t, label) == pc' = [pc EXCEPT ![t] = label]

\* thread.start(): load() begins with the call of fetch_rates
Start(t) ==
    /\ pc[t] = "idle"
    /\ runs[t] < Starts(t)
    /\ runs' = [runs EXCEPT ![t] = @ + 1]
    /\ Goto(t, "l42")
    /\ UNCHANGED <<rates, last_update, cache, now, calls, gui, tmp, rates_from, update_from, installed>>

\* _load_from_cache, lines 42-50: the file is read and its age tested
ReadCache(t) ==
    /\ pc[t] = "l42"
    /\ IF cache.kind = "snapshot" /\ now - cache.timestamp < CACHE_DURATION_HOURS
       THEN /\ tmp' = [tmp EXCEPT ![t] = [rates |-> cache.rates,
                                           time |-> cache.timestamp]]
            /\ Goto(t, "l51")
       ELSE /\ Goto(t, "l79")
            /\ UNCHANGED tmp
    /\ UNCHANGED <<rates, last_update, cache, now, calls, gui, runs, rates_from, update_from, installed>>

\* line 51: self.rates = data['rates']
AdoptCachedRates(t) ==
    /\ pc[t] = "l51"
    /\ rates' = tmp[t].rates
    /\ rates_from' = FetchId(t)
    /\ Goto(t, "l52")
    /\ UNCHANGED <<last_update, cache, now, calls, gui, tmp, runs, update_from, installed>>

\* lines 52-53 and 76: self.last_update = cache_time; fetch_rates returns
\* True and load() ends
AdoptCachedTime(t) ==
    /\ pc[t] = "l52"
    /\ last_update' = Some(tmp[t].time)
    /\ update_from' = FetchId(t)
    /\ installed' = installed \cup {<<tmp[t].rates, Some(tmp[t].time)>>}
    /\ Goto(t, "idle")
    /\ UNCHANGED <<rates, cache, now, calls, gui, tmp, runs, rates_from>>

\* lines 79-83 and 88-94: the request and the test of its answer.  A False
\* takes the loader to setup_demo_mode; a KeyError ends the thread.
Request(t) ==
    /\ pc[t] = "l79"
    /\ \E response \in Responses :
        IF response.kind = "success"
        THEN /\ tmp' = [tmp EXCEPT ![t] = [rates |-> response.conversion_rates,
                                            time |-> 0]]
             /\ Goto(t, "l84")
        ELSE /\ Goto(t, IF t = "loader" /\ response.kind \notin {"no_result", "success_no_rates"}
                        THEN "l462" ELSE "idle")
             /\ UNCHANGED tmp
    /\ UNCHANGED <<rates, last_update, cache, now, calls, gui, runs, rates_from, update_from, installed>>

\* line 84: self.rates = data['conversion_rates']
AdoptFetchedRates(t) ==
    /\ pc[t] = "l84"
    /\ rates' = tmp[t].rates
    /\ rates_from' = FetchId(t)
    /\ Goto(t, "l85")
    /\ UNCHANGED <<last_update, cache, now, calls, gui, tmp, runs, update_from, installed>>

\* line 85: self.last_update = datetime.now()
AdoptFetchedTime(t) ==
    /\ pc[t] = "l85"
    /\ last_update' = Some(now)
    /\ update_from' = FetchId(t)
    /\ installed' = installed \cup {<<tmp[t].rates, Some(now)>>}
    /\ Goto(t, "l62")
    /\ UNCHANGED <<rates, cache, now, calls, gui, tmp, runs, rates_from>>

\* _save_to_cache, lines 62-67: data is built from the clock and self.rates
\* and the file is opened for writing, which empties it
OpenCache(t) ==
    /\ pc[t] = "l62"
    /\ \E opened \in BOOLEAN :
        IF opened
        THEN /\ tmp' = [tmp EXCEPT ![t] = [rates |-> rates, time |-> now]]
             /\ cache' = CacheCorrupt
             /\ Goto(t, "l68")
        ELSE /\ Goto(t, "idle")
             /\ UNCHANGED <<tmp, cache>>
    /\ UNCHANGED <<rates, last_update, now, calls, gui, runs, rates_from, update_from, installed>>

\* line 68 and 87: json.dump; fetch_rates returns True and load() ends
DumpCache(t) ==
    /\ pc[t] = "l68"
    /\ \E dumped \in BOOLEAN :
        cache' = IF dumped THEN Snapshot(tmp[t].time, BASE_CURRENCY, tmp[t].rates)
                 ELSE CacheCorrupt
    /\ Goto(t, "idle")
    /\ UNCHANGED <<rates, last_update, now, calls, gui, tmp, runs, rates_from, update_from, installed>>

\* setup_demo_mode, line 462: self.currency_converter.rates = demo_rates
DemoRates(t) ==
    /\ pc[t] = "l462"
    /\ rates' = demo_rates
    /\ rates_from' = DemoId(t)
    /\ Goto(t, "l463")
    /\ UNCHANGED <<last_update, cache, now, calls, gui, tmp, runs, update_from, installed>>

\* setup_demo_mode, line 463: self.currency_converter.last_update = now
DemoTime(t) ==
    /\ pc[t] = "l463"
    /\ last_update' = Some(now)
    /\ update_from' = DemoId(t)
    /\ installed' = installed \cup {<<demo_rates, Some(now)>>}
    /\ Goto(t, "idle")
    /\ UNCHANGED <<rates, cache, now, calls, gui, tmp, runs, rates_from>>

NextThreads ==
    \/ \E t \in Threads :
        \/ Start(t)
        \/ ReadCache(t)
        \/ AdoptCachedRates(t)
        \/ AdoptCachedTime(t)
        \/ Request(t)
        \/ AdoptFetchedRates(t)
        \/ AdoptFetchedTime(t)
        \/ OpenCache(t)
        \/ DumpCache(t)
        \/ DemoRates(t)
        \/ DemoTime(t)
    \/ Tick

SpecThreads == Init /\ [][NextThreads]_vars

\* ------------------------------------------------------------------------
\* CurrencyConverter.convert on the main thread, one read of self.rates at
\* a time, while the background threads run

\* the codes and the amount of the call
ReaderCurrencies == {"RUB", "USD", "GBP"}

ReaderAmounts == {Flt(3)}

\* the call returns or raises: out is what the caller gets
Leave(out) == [reader EXCEPT !.pc = "idle", !.out = out, !.time = now]

ReaderStays == UNCHANGED <<rates, last_update, cache, now, calls, threads, history>>

\* convert is called; the codes are upper-cased (lines 101-102)
ConvertEnter ==
    /\ reader.pc = "idle"
    /\ \E f \in ReaderCurrencies, g \in ReaderCurrencies, amount \in ReaderAmounts :
        reader' = [NoReader EXCEPT !.pc = "l98", !.from_currency = upper(f),
                                   !.to_currency = upper(g), !.amount = amount]
    /\ ReaderStays

\* line 98: if not self.rates
ConvertTestLoaded ==
    /\ reader.pc = "l98"
    /\ reader' = IF DOMAIN rates = {}
                 THEN [Leave(Raise("ValueError", "rates_not_loaded"))
                          EXCEPT !.seen = @ \cup {rates}]
                 ELSE [reader EXCEPT !.pc = "l104", !.seen = @ \cup {rates}]
    /\ ReaderStays

\* line 104, left operand: from_currency not in self.rates
ConvertTestFrom ==
    /\ reader.pc = "l104"
    /\ reader' = IF reader.from_currency \notin DOMAIN rates
                 THEN [Leave(Raise("ValueError", "unknown_currency"))
                          EXCEPT !.seen = @ \cup {rates}]
                 ELSE [reader EXCEPT !.pc = "l104_to", !.seen = @ \cup {rates}]
    /\ ReaderStays

\* line 104, right operand: to_currency not in self.rates; then the branch
\* of lines 109-115
ConvertTestTo ==
    /\ reader.pc = "l104_to"
    /\ reader' = IF reader.to_currency \notin DOMAIN rates
                 THEN [Leave(Raise("ValueError", "unknown_currency"))
                          EXCEPT !.seen = @ \cup {rates}]
                 ELSE [reader EXCEPT !.seen = @ \cup {rates},
                                     !.pc = IF reader.from_currency = BASE_CURRENCY
                                            THEN "l110"
                                            ELSE IF reader.to_currency = BASE_CURRENCY
                                            THEN "l113" ELSE "l117"]
    /\ ReaderStays

\* lines 110-111: rate = self.rates[to_currency]; result = amount * rate
ConvertFromBase ==
    /\ reader.pc = "l110"
    /\ reader' = [(IF reader.to_currency \notin DOMAIN rates
                   THEN Leave(Raise("KeyError", reader.to_currency))
                   ELSE LET rate == rates[reader.to_currency]
                        IN  Leave(ConversionResult(reader.amount, reader.from_currency,
                                      reader.to_currency, FMul(reader.amount, rate),
                                      now, Some(rate))))
                      EXCEPT !.seen = @ \cup {rates}]
    /\ ReaderStays

\* lines 113-114: rate = 1 / self.rates[from_currency]; result = amount * rate
ConvertToBase ==
    /\ reader.pc = "l113"
    /\ reader' = [(IF reader.from_currency \notin DOMAIN rates
                   THEN Leave(Raise("KeyError", reader.from_currency))
                   ELSE IF rates[reader.from_currency] = Zero
                   THEN Leave(Raise("ZeroDivisionError", "division by zero"))
                   ELSE LET rate == FDiv(One, rates[reader.from_currency])
                        IN  Leave(ConversionResult(reader.amount, reader.from_currency,
                                      reader.to_currency, FMul(reader.amount, rate),
                                      now, Some(rate))))
                      EXCEPT !.seen = @ \cup {rates}]
    /\ ReaderStays

\* line 117: amount_in_base = amount / self.rates[from_currency]
ConvertCrossIn ==
    /\ reader.pc = "l117"
    /\ reader' = [(IF reader.from_currency \notin DOMAIN rates
                   THEN Leave(Raise("KeyError", reader.from_currency))
                   ELSE IF rates[reader.from_currency] = Zero
                   THEN Leave(Raise("ZeroDivisionError", "division by zero"))
                   ELSE [reader EXCEPT !.pc = "l118",
                            !.amount_in_base = FDiv(reader.amount,
                                                    rates[reader.from_currency])])
                      EXCEPT !.seen = @ \cup {rates}]
    /\ ReaderStays

\* lines 118-119: result = amount_in_base * self.rates[to_currency];
\* rate = result / amount
ConvertCrossOut ==
    /\ reader.pc = "l118"
    /\ reader' = [(IF reader.to_currency \notin DOMAIN rates
                   THEN Leave(Raise("KeyError", reader.to_currency))
                   ELSE IF reader.amount = Zero
                   THEN Leave(Raise("ZeroDivisionError", "division by zero"))
                   ELSE LET result == FMul(reader.amount_in_base,
                                           rates[reader.to_currency])
                        IN  Leave(ConversionResult(reader.amount, reader.from_currency,
                                      reader.to_currency, result, now,
                                      Some(FDiv(result, reader.amount)))))
                      EXCEPT !.seen = @ \cup {rates}]
    /\ ReaderStays

NextReader ==
    \/ \E t \in Threads :
        \/ Start(t)
        \/ ReadCache(t)
        \/ AdoptCachedRates(t)
        \/ AdoptCachedTime(t)
        \/ Request(t)
        \/ AdoptFetchedRates(t)
        \/ AdoptFetchedTime(t)
        \/ OpenCache(t)
        \/ DumpCache(t)
        \/ DemoRates(t)
        \/ DemoTime(t)
    \/ ConvertEnter
    \/ ConvertTestLoaded
    \/ ConvertTestFrom
    \/ ConvertTestTo
    \/ ConvertFromBase
    \/ ConvertToBase
    \/ ConvertCrossIn
    \/ ConvertCrossOut

SpecReader == Init /\ [][NextReader]_vars

\* ------------------------------------------------------------------------
\* Properties of fetch_rates (specification Spec)

IsFetch == call.op = "fetch_rates"

FreshSnapshot(file, t) ==
    file.kind = "snapshot" /\ t - file.timestamp < CACHE_DURATION_HOURS

\* C1: a fetch_rates call made while the cache file holds a snapshot younger
\* than 24 hours adopts the snapshot's rates and timestamp, returns True and
\* does not contact the rate source.
CacheFirst ==
    (IsFetch /\ FreshSnapshot(call.pre_cache, call.time))
        => /\ call.outcome = "True"
           /\ ~call.contacted
           /\ call.rates = call.pre_cache.rates
           /\ call.last_update = Some(call.pre_cache.timestamp)

\* C1 witness: a call that found a fresh snapshot and replaced other rates
CacheFirstWitness ==
    /\ IsFetch
    /\ FreshSnapshot(call.pre_cache, call.time)
    /\ call.pre_rates # call.pre_cache.rates
    /\ call.rates = call.pre_cache.rates
    /\ ~call.contacted

FailedResponses ==
    {"transport_error", "http_error", "not_json", "no_result",
     "error_result", "success_no_rates"}

\* C2: with no usable cache, a remote fetch that ends in a transport failure,
\* a non-success answer or a malformed response makes fetch_rates return
\* False with rates and last_update as they were before the call.
FailureKeepsState ==
    (IsFetch /\ call.contacted /\ call.response \in FailedResponses)
        => /\ call.outcome = "False"
           /\ call.rates = call.pre_rates
           /\ call.last_update = call.pre_last_update

\* C3: fetch_rates never lets an exception out: every call ends in a
\* returned True or False.
FetchNeverRaises ==
    IsFetch => call.outcome \in {"True", "False"}

\* C10: after a fetch_rates call that returned True, every further
\* fetch_rates call made less than 24 hours later returns True without
\* contacting the rate source.
RepeatedFetchNetworkFree ==
    (IsFetch /\ call.pre_last_success # None
        /\ call.time - call.pre_last_success[1] < CACHE_DURATION_HOURS)
        => (call.outcome = "True" /\ ~call.contacted)

\* C10 as amended: after a fetch_rates call that returned True from the
\* cache, or from the rate source with the cache file written, every further
\* fetch_rates call made less than 24 hours after that snapshot's timestamp
\* returns True without contacting the rate source.
RepeatedFetchInsideWindow ==
    (IsFetch /\ call.pre_persisted # None
        /\ call.time - call.pre_persisted[1] < CACHE_DURATION_HOURS)
        => (call.outcome = "True" /\ ~call.contacted)

\* C10 witness: a later call inside the window of a snapshot that a remote
\* fetch wrote
RepeatedFetchWitness ==
    /\ IsFetch
    /\ call.pre_persisted # None
    /\ call.pre_persisted = call.pre_last_success
    /\ call.time > call.pre_persisted[1]
    /\ call.time - call.pre_persisted[1] < CACHE_DURATION_HOURS
    /\ call.pre_cache.timestamp = call.pre_persisted[1]
    /\ call.pre_cache.timestamp > StartTime
    /\ ~call.contacted

\* C11: _load_from_cache adopts the cached snapshot and returns True exactly
\* when the file exists, parses and is strictly younger than 24 hours (23
\* hours is accepted, exactly 24 hours and 25 hours are rejected); otherwise
\* it returns False with rates and last_update as they were, and fetch_rates
\* goes on to contact the rate source.
CacheLoadOutcome ==
    IsFetch =>
        LET file == call.pre_cache
            age == call.time - file.timestamp
            parses == file.kind = "snapshot"
        IN  /\ call.loaded.ret \in BOOLEAN
            /\ call.loaded.ret <=> (parses /\ age < 24)
            /\ (parses /\ age = 23) => call.loaded.ret
            /\ (parses /\ age \in {24, 25}) => ~call.loaded.ret
            /\ call.loaded.ret
                => /\ call.loaded.rates = file.rates
                   /\ call.loaded.last_update = Some(file.timestamp)
            /\ ~call.loaded.ret
                => /\ call.loaded.rates = call.pre_rates
                   /\ call.loaded.last_update = call.pre_last_update
                   /\ call.contacted

\* C11 witness: a snapshot of exactly 24 hours is turned down, the rate
\* source is contacted and, as it fails, the loaded rates stay
CacheLoadWitness ==
    /\ IsFetch
    /\ call.pre_cache.kind = "snapshot"
    /\ call.time - call.pre_cache.timestamp = 24
    /\ ~call.loaded.ret
    /\ call.contacted
    /\ call.pre_rates # EmptyRates
    /\ call.loaded.rates = call.pre_rates
    /\ call.rates = call.pre_rates

\* C12: a fetch_rates call whose request to the rate source succeeds adopts
\* the rates received, sets last_update to the time of the call, tries to
\* write the cache file and returns True; when the write fails the call
\* still returns True with the new rates and the new last_update.
RemoteSuccessAdopts ==
    (IsFetch /\ call.contacted /\ call.response = "success")
        => /\ call.outcome = "True"
           /\ call.rates = call.payload
           /\ call.last_update = Some(call.time)
           /\ rates = call.payload
           /\ last_update = Some(call.time)
           /\ call.write \in WriteOutcomes
           /\ call.write = "written"
                => call.cache = Snapshot(call.time, BASE_CURRENCY, call.payload)
           /\ cache = call.cache

\* C12 witness: the rates arrived, the cache file could not be written, and
\* the call returned True with the new rates
RemoteSuccessWitness ==
    /\ IsFetch
    /\ call.contacted
    /\ call.response = "success"
    /\ call.write = "dump_failed"
    /\ call.outcome = "True"
    /\ call.pre_rates = RatesA
    /\ call.payload = RatesB
    /\ rates = RatesB
    /\ last_update = Some(call.time)
    /\ cache # Snapshot(call.time, BASE_CURRENCY, call.payload)

\* C18: right after a fetch_rates call that returned True, from the cache or
\* from the rate source, rates is a non-empty mapping, so that a convert
\* call that follows does not fail with the rates-not-loaded error.
SuccessMeansLoaded ==
    (IsFetch /\ call.outcome = "True")
        => /\ call.rates # EmptyRates
           /\ rates # EmptyRates
           /\ convert(rates, BASE_CURRENCY, BASE_CURRENCY, One, now)
                # Raise("ValueError", "rates_not_loaded")

\* C19: fetch_rates adopts a cached snapshot only if the base stored in it
\* is the converter's base_currency; a cache written for another base is
\* never used.
CacheBaseMatches ==
    (IsFetch /\ call.loaded.ret) => call.pre_cache.base = BASE_CURRENCY

\* ------------------------------------------------------------------------
\* Properties of CurrencyConverter.convert (specification SpecConvert)

IsConvert == call.op = "convert"

\* the upper-case spelling of each code entered
UpperCase ==
    [s \in CurrencyInputs |->
        IF s \in {"USD", "usd"} THEN "USD"
        ELSE IF s \in {"EUR", "Eur"} THEN "EUR"
        ELSE IF s = "RUB" THEN "RUB"
        ELSE "XXX"]

FromCode == UpperCase[call.from_currency]

ToCode == UpperCase[call.to_currency]

\* both codes, upper-cased, are in the rates of the call
Loaded == FromCode \in DOMAIN call.rates /\ ToCode \in DOMAIN call.rates

\* C4: the result and rate of a conversion, case by case, with
\* result = amount / rates[from] when to is the base currency.
ConvertFormulaAsClaimed ==
    (IsConvert /\ Loaded /\ call.out.kind = "result")
        => LET rs == call.rates
               f == FromCode
               g == ToCode
               amount == call.amount
               out == call.out
           IN  IF f = BASE_CURRENCY
               THEN out.result = FMul(amount, rs[g]) /\ out.rate = Some(rs[g])
               ELSE IF g = BASE_CURRENCY
               THEN /\ out.result = FDiv(amount, rs[f])
                    /\ out.rate = Some(FDiv(One, rs[f]))
               ELSE /\ out.result = FMul(FDiv(amount, rs[f]), rs[g])
                    /\ out.rate = Some(FDiv(out.result, amount))

\* C4 as amended: as claimed, except that with to the base currency
\* rate = 1 / rates[from] and result = amount * rate (amount / rates[from]
\* only up to rounding); the third case for amount # 0, where it returns.
ConvertFormula ==
    (IsConvert /\ Loaded)
        => LET rs == call.rates
               f == FromCode
               g == ToCode
               amount == call.amount
               out == call.out
           IN  IF f = BASE_CURRENCY
               THEN /\ out.kind = "result"
                    /\ out.result = FMul(amount, rs[g])
                    /\ out.rate = Some(rs[g])
               ELSE IF g = BASE_CURRENCY
               THEN /\ out.kind = "result"
                    /\ out.rate = Some(FDiv(One, rs[f]))
                    /\ out.result = FMul(amount, out.rate[1])
               ELSE amount # Zero
                    => /\ out.kind = "result"
                       /\ out.result = FMul(FDiv(amount, rs[f]), rs[g])
                       /\ out.rate = Some(FDiv(out.result, amount))

\* C4 witness: a conversion to the base currency whose result is not the
\* rounded quotient amount / rates[from]

ConvertFormulaWitness ==
    /\ IsConvert /\ Loaded /\ call.out.kind = "result"
    /\ FromCode # BASE_CURRENCY
    /\ ToCode = BASE_CURRENCY
    /\ call.out.result # FDiv(call.amount, call.rates[FromCode])

\* C5: with neither code the base currency, both loaded and amount 0,
\* convert returns result 0 and rate = rates[to].
ZeroAmountGuard ==
    (IsConvert /\ Loaded /\ call.amount = Zero
        /\ FromCode # BASE_CURRENCY
        /\ ToCode # BASE_CURRENCY)
        => /\ call.out.kind = "result"
           /\ call.out.result = Zero
           /\ call.out.rate = Some(call.rates[ToCode])

\* C6: while rates is empty every convert call fails with the
\* rates-not-loaded error, also for unknown codes.
NotLoadedFirst ==
    (IsConvert /\ call.rates = EmptyRates)
        => call.out = Raise("ValueError", "rates_not_loaded")

\* C6 witness: before any load, a call with an unknown code
NotLoadedWitness ==
    /\ IsConvert /\ call.rates = EmptyRates
    /\ ~started /\ last_success = None
    /\ call.from_currency = "XXX"
    /\ call.out.kind = "error"

\* C7: with rates loaded, convert fails with the unknown-currency error
\* exactly when an upper-cased code is not in rates, and a result carries the
\* upper-cased codes.
UnknownCurrencyIff ==
    (IsConvert /\ call.rates # EmptyRates)
        => /\ (call.out = Raise("ValueError", "unknown_currency")) <=> ~Loaded
           /\ call.out.kind = "result"
                => /\ call.out.from_unit = FromCode
                   /\ call.out.to_unit = ToCode

\* C7 witness: codes in lower and mixed case, accepted and reported in
\* upper case
UnknownCurrencyWitness ==
    /\ IsConvert
    /\ call.from_currency = "usd" /\ call.to_currency = "Eur"
    /\ call.out.kind = "result"
    /\ call.out.from_unit = "USD" /\ call.out.to_unit = "EUR"

\* ------------------------------------------------------------------------
\* Properties of UnitConverter.convert (specification SpecUnits)

IsUnitConvert == call.op = "unit_convert"

\* the categories that list a unit code
Categories(unit) ==
    {CONVERSION_FACTORS[i].name :
        i \in {j \in 1..Len(CONVERSION_FACTORS) :
                  unit \in DOMAIN CONVERSION_FACTORS[j].units}}

\* C8: a code of no category gives the unknown-unit error, codes of two
\* different categories give the incompatible-units error naming both
\* categories, and anything else gives a result.
UnitClassification ==
    IsUnitConvert
        => LET cf == Categories(call.from_unit)
               ct == Categories(call.to_unit)
           IN  IF cf = {} \/ ct = {}
               THEN /\ call.out.kind = "error"
                    /\ call.out.message.text = "unknown_unit"
               ELSE IF cf # ct
               THEN /\ call.out.kind = "error"
                    /\ call.out.message.text = "incompatible_units"
                    /\ {call.out.message.types[1]} = cf
                    /\ {call.out.message.types[2]} = ct
               ELSE call.out.kind = "result"

\* C8 witness: all three outcomes are met; here a valid code with an unknown
\* one
UnitClassificationWitness ==
    /\ IsUnitConvert
    /\ call.from_unit = "m" /\ call.to_unit = "parsecs"
    /\ call.out.kind = "error"
    /\ call.out.message.text = "unknown_unit"

TemperatureUnits == {"degC", "degF", "K"}

\* C14: converting a value from a unit to the same unit returns the value
\* itself, exactly, for every unit of every category.
IdentityExact ==
    (IsUnitConvert /\ call.from_unit = call.to_unit /\ call.out.kind = "result")
        => call.out.result = call.value

\* the affine formulas, to Celsius and from Celsius
ToCelsius(unit, v) ==
    CASE unit = "degC" -> v
      [] unit = "degF" -> FDiv(FMul(FSub(v, Flt(32)), Flt(5)), Flt(9))
      [] unit = "K" -> FSub(v, <<17, 4>>)

FromCelsius(unit, c) ==
    CASE unit = "degC" -> c
      [] unit = "degF" -> FAdd(FDiv(FMul(c, Flt(9)), Flt(5)), Flt(32))
      [] unit = "K" -> FAdd(c, <<17, 4>>)

\* C15: a temperature conversion goes through Celsius with the affine
\* formulas F->C (v - 32) * 5/9, K->C v - 273.15, C->F v * 9/5 + 32 and
\* C->K v + 273.15; 0 degC is 273.15 K, 32 degF is 0 degC and 100 degC is
\* 212 degF.
TemperatureThroughCelsius ==
    (IsUnitConvert /\ call.from_unit \in TemperatureUnits
        /\ call.to_unit \in TemperatureUnits)
        => /\ call.out.kind = "result"
           /\ call.out.result
                = FromCelsius(call.to_unit, ToCelsius(call.from_unit, call.value))
           /\ (call.value = Zero /\ call.from_unit = "degC" /\ call.to_unit = "K")
                => call.out.result = <<17, 4>>
           /\ (call.value = Flt(32) /\ call.from_unit = "degF" /\ call.to_unit = "degC")
                => call.out.result = Zero
           /\ (call.value = Flt(100) /\ call.from_unit = "degC" /\ call.to_unit = "degF")
                => call.out.result = Flt(212)

\* C15 witness: 100 degC came out as 212 degF
TemperatureWitness ==
    /\ IsUnitConvert
    /\ call.value = Flt(100) /\ call.from_unit = "degC" /\ call.to_unit = "degF"
    /\ call.out.kind = "result"
    /\ call.out.result = Flt(212)
    /\ call.out.result # call.value

\* ------------------------------------------------------------------------
\* Properties of the background threads (specification SpecThreads)

\* C9: at no moment does rates come from one fetch (or demo fallback) and
\* last_update from another: whatever a reader on another thread reads, the
\* two were assigned by the same call.
NoTornPair ==
    (rates_from # Constructed /\ update_from # Constructed)
        => \/ rates_from = update_from
           \/ <<rates, last_update>> \in installed

\* ------------------------------------------------------------------------
\* Properties of the results (specification SpecResults)

\* C13: every result CurrencyConverter.convert returns carries a rate, and
\* every result UnitConverter.convert returns, linear or temperature,
\* carries none.
RatePresence ==
    /\ (IsConvert /\ call.out.kind = "result") => call.out.rate # None
    /\ (IsUnitConvert /\ call.out.kind = "result") => call.out.rate = None

\* C13 witness: with the rates loaded, a temperature conversion returned a
\* result without a rate
RatePresenceWitness ==
    /\ IsUnitConvert
    /\ rates # EmptyRates
    /\ call.from_unit = "degC" /\ call.to_unit = "K"
    /\ call.out.kind = "result"
    /\ call.out.rate = None

\* ------------------------------------------------------------------------
\* Properties of the history (specification SpecGUI)

IsAttempt == call.op \in {"convert_currency", "convert_units"}

\* C16: a successful currency or unit conversion appends exactly one result,
\* at the end of history; an attempt that fails (rates not loaded, unknown
\* code, incompatible units, amount that does not parse) leaves history as
\* it was; nothing but clear_history removes entries.
HistoryStep ==
    IF call'.op \in {"convert_currency", "convert_units"}
    THEN IF call'.out.kind = "result"
         THEN history' = Append(history, call'.out)
         ELSE history' = history
    ELSE IF call'.op = "clear_history"
    THEN history' = IF call'.answer THEN <<>> ELSE history
    ELSE history' = history

HistoryBookkeeping == [][HistoryStep]_vars

\* C16 witness: a currency result, then a unit result, and after them an
\* attempt with an unknown code that left both in place
HistoryWitness ==
    /\ Len(history) = 2
    /\ history[1].rate # None
    /\ history[2].rate = None
    /\ call.op = "convert_currency"
    /\ call.rates # EmptyRates
    /\ call.out = Raise("ValueError", "unknown_currency")

\* ------------------------------------------------------------------------
\* Properties of convert beside the background threads (specification
\* SpecReader)

\* C17: a convert call that runs while a background thread replaces rates
\* computes its whole outcome from one single rates mapping: what it
\* returns or raises is what convert gives on one of the mappings it read,
\* so it fails with nothing but the not-loaded or the unknown-currency
\* error.
SingleSnapshot ==
    (reader.pc = "idle" /\ reader.out.kind # "none")
        => \E m \in reader.seen :
               reader.out = convert(m, reader.from_currency, reader.to_currency,
                                    reader.amount, reader.time)

====
